---------------------------- MODULE Spec2Model ----------------------------
(***************************************************************************)
(* A model of the cellular-automaton engine of src/main.rs: the World      *)
(* (two value buffers, two flag buffers, an ordered rule list), its        *)
(* operations step() and randomize(), the pure transition function         *)
(* compute_transition, and the non-interactive exploration loop of main.   *)
(*                                                                         *)
(* Specifications:                                                         *)
(*   Spec     World::new, optionally one randomize(), then step() calls    *)
(*   SpecAny  World::new, then randomize() and step() in any order         *)
(*   SpecFn   one call of compute_transition on drawn arguments            *)
(*   SpecMain one run of main's exploration loop (non-interactive build)   *)
(*   FairMain SpecMain, with the loop always taking its next step          *)
(*   SpecLong SpecMain on a wider grid                                     *)
(*   SpecRuns main's exploration loop over several runs                    *)
(*   SpecNew  World::new, statement by statement                           *)
(*   SpecPar  step(), one per-cell task at a time on two worker threads    *)
(***************************************************************************)
EXTENDS Integers, Sequences, FiniteSets, TLC

VARIABLES
    size,                       \* World.size
    symbol_count,               \* World.symbol_count
    rules,                      \* World.rules, a sequence of WorldRule
    symbol_to_color,            \* World.symbol_to_color
    data,                       \* World.data
    prev_data,                  \* World.prev_data
    cell_changed_flags,         \* World.cell_changed_flags
    neighborhood_changed_flags, \* World.neighborhood_changed_flags
    gate_flags,                 \* history: the neighborhood flags the last step() read
    reference,                  \* history: the grid of a stepper that skips nothing
    initial_data,               \* history: data at entry of the first step()
    steps,                      \* history: number of step() calls
    randomize_calls,            \* history: number of randomize() calls
    call_pos,                   \* compute_transition: the argument pos
    call_state,                 \* compute_transition: "ready" or "returned"
    read_indices,               \* compute_transition: the indices i it computed
    symbol_counts_set,          \* compute_transition: the local of that name
    rule_matched,               \* compute_transition: per rule, !found_non_match
    call_ret,                   \* compute_transition: the value returned
    pc,                         \* main: "idle", "randomize", "loop" or "next"
    seed,                       \* main: seed
    count,                      \* main: count
    unique_frame_hashes,        \* main: unique_frame_hashes
    last_frames_cell_changes_anded_1,   \* main: the second last window
    last_frames_cell_changes_anded_2,   \* main: the last window
    already_printed_details,    \* main: already_printed_details
    exploration_count,          \* main: exploration_count
    printed,                    \* main: the lines print_details wrote to stdout
    generations,                \* history: data after each step() of the run
    change_history,             \* history: cell_changed_flags after each step()
    finished,                   \* history: seed and results of the runs that ended
    new_pc,                     \* World::new: the statement it is at
    new_args,                   \* World::new: world_size, symbol_count, avg_symbols_per_rule
    rule_count,                 \* World::new: rule_count
    prob_match,                 \* World::new: prob_match, in units of 2^-24
    world_rules,                \* World::new: world_rules
    last_sampled,               \* history: the symbols sampling selected for the last rule
    phase,                      \* step(): "idle", "transition" or "erosion"
    next_cell,                  \* step(): the first cell no task has been started for
    thread_pc,                  \* per worker thread: where its current task is
    thread_cell,                \* per worker thread: the cell of its current task
    thread_reg,                 \* per worker thread: the counter value it loaded
    task_reads,                 \* per worker thread: locations its current task read
    task_writes,                \* per worker thread: locations its current task wrote
    scratch_counter_1,          \* static mut scratch_counter_1
    scratch_counter_2,          \* static mut scratch_counter_2
    scratch_counter_3           \* static mut scratch_counter_3

worldVars == <<size, symbol_count, rules, symbol_to_color, data, prev_data,
               cell_changed_flags, neighborhood_changed_flags>>
historyVars == <<gate_flags, reference, initial_data, steps, randomize_calls>>
callVars == <<call_pos, call_state, read_indices, symbol_counts_set, rule_matched,
              call_ret>>

mainVars == <<pc, seed, count, unique_frame_hashes,
              last_frames_cell_changes_anded_1, last_frames_cell_changes_anded_2,
              already_printed_details, exploration_count, printed, generations,
              change_history, finished>>

newVars == <<new_pc, new_args, rule_count, prob_match, world_rules, last_sampled>>

parVars == <<phase, next_cell, thread_pc, thread_cell, thread_reg, task_reads,
             task_writes, scratch_counter_1, scratch_counter_2, scratch_counter_3>>

vars == <<worldVars, historyVars, callVars, mainVars, newVars, parVars>>

---------------------------------------------------------------------------
(* Bounds of the model. *)

\* randomize() draws the grids that hold the default symbol 0 outside of
\* MaxSeedCells cells, SeedStride apart (and the uniform grids).
MaxSeedCells == 4
SeedStride == 21
\* The side of the square of seed cells on the wide grid.
SparseGap == 14
\* The largest alphabet randomize()'s conversion is evaluated for (main:
\* symbol_count = 5).
MaxSymbolCount == 5
\* step() calls explored after construction.
MaxSteps == 6
\* randomize() calls explored when it may be called at any time.
MaxRandomize == 2
\* Runs of main's outer loop explored.
MaxRuns == 2
\* main: sample_frame_count = 400, scaled down. The windows need it >= 10:
\* sample_frame_count-10 is an unsigned subtraction.
sample_frame_count == 10
\* main: min_end_cell_diff
min_end_cell_diff == 25

\* The alphabet of the explored worlds (main: symbol_count = 5).
SymbolCount == Cardinality({0, 1})
\* The rule count World::new calibrates for that alphabet and one symbol per
\* rule on average: its loop doubles 1 once and stops.
RuleCount == 2
\* Grid sides explored: of the stepped worlds, of the worlds randomized at any
\* time, and of the buffers handed to compute_transition; of main's world
\* (main: size = 128), and of a world wide enough for a run to go quiet at
\* generation sample_frame_count exactly.
StepSizes == {1, 2, 8}
AnySizes == {2}
FnSizes == {1, 2, 4}
MainSizes == {8}
LongSizes == {32}
RunsSizes == {2}
ParSizes == {2}
\* The color tables explored.
ColorKeys == {0, 100}
\* Worker threads of the pool that runs the per-cell tasks of step().
ThreadCount == 2
\* step() calls explored task by task.
MaxParSteps == 2
\* World::new is called with world_size 0 .. MaxNewSize (and a fixed
\* alphabet), with the alphabets NewSymbolCounts and avg_symbols_per_rule
\* 0 .. MaxNewAvg, and with the dense configuration of 20 symbols, 19 per
\* rule.
MaxNewSize == 4
MaxNewAvg == 3
NewSymbolCounts == {2, 3}

\* What a call returns in the model when an index leaves the buffer (the
\* slice access panics).
IndexPanic == -1

---------------------------------------------------------------------------
(* compute_transition. *)

Cells(n) == 0 .. (n * n - 1)

WrapNoUpper(c, world_size) ==
    IF c < 0 THEN world_size - 1 ELSE c

\* if c < 0 {world_size-1} else if c as u32 == world_size {0} else {c as u32}
Wrap(c, world_size) ==
    IF c < 0 THEN world_size - 1
    ELSE IF c = world_size THEN 0
    ELSE c

\* The indices yy*world_size + xx the two nested loops compute around pos.
NeighborIndices(world_size, pos) ==
    { Wrap(y, world_size) * world_size + Wrap(x, world_size) :
        y \in (pos[2] - 1) .. (pos[2] + 1), x \in (pos[1] - 1) .. (pos[1] + 1) }

\* x = i % world_size, y = (i - x) / world_size
PosOf(i, world_size) == << i % world_size, (i - (i % world_size)) \div world_size >>

\* The inner loop over rule.symbols_needed: stops at the first missing symbol.
RECURSIVE FoundNonMatch(_, _, _)
FoundNonMatch(symbols_needed, symbols, k) ==
    IF k > Len(symbols_needed) THEN FALSE
    ELSE IF symbols_needed[k] \notin symbols THEN TRUE
    ELSE FoundNonMatch(symbols_needed, symbols, k + 1)

RuleMatchesAny(rule, symbols) ==
    \E k \in 1 .. Len(rule.symbols_needed) : rule.symbols_needed[k] \in symbols

RuleMatches(rule, symbols) == ~FoundNonMatch(rule.symbols_needed, symbols, 1)

RECURSIVE LastMatch(_, _, _)
LastMatch(rs, symbols, k) ==
    IF k > Len(rs) THEN 0
    ELSE LET later == LastMatch(rs, symbols, k + 1)
         IN  IF later # 0 THEN later
             ELSE IF RuleMatches(rs[k], symbols) THEN k ELSE 0

\* The outer loop over rules: the index of the first rule, from k on, that
\* matches; 0 when the loop runs out.
RECURSIVE FirstMatch(_, _, _)
FirstMatch(rs, symbols, k) ==
    IF k > Len(rs) THEN 0
    ELSE IF RuleMatches(rs[k], symbols) THEN k
    ELSE FirstMatch(rs, symbols, k + 1)

FallbackDefault(prev, world_size, pos) == 0

\* by default keep the same value: prev_data[yc*world_size + xc]
Fallback(prev, world_size, pos) == prev[pos[2] * world_size + pos[1]]

GatheredSymbols(prev, world_size, pos) ==
    { prev[i] : i \in NeighborIndices(world_size, pos) }

compute_transition(prev, world_size, pos, rs) ==
    IF \E i \in NeighborIndices(world_size, pos) : i \notin DOMAIN prev
    THEN IndexPanic
    ELSE LET m == FirstMatch(rs, GatheredSymbols(prev, world_size, pos), 1)
         IN  IF m # 0 THEN rs[m].output_symbol
             ELSE Fallback(prev, world_size, pos)

---------------------------------------------------------------------------
(* Inputs: the rule lists World::new can produce, the grids randomize()   *)
(* can produce.                                                           *)

\* symbols_needed as World::new builds it: the sampled symbols pushed in
\* ascending order; mask is the non-empty set of sampled symbols, or the one
\* forced symbol.
RECURSIVE Ascending(_, _)
Ascending(mask, from) ==
    IF from >= SymbolCount THEN << >>
    ELSE IF from \in mask THEN << from >> \o Ascending(mask, from + 1)
    ELSE Ascending(mask, from + 1)

WorldRules ==
    { [symbols_needed |-> Ascending(mask, 0), output_symbol |-> out] :
        mask \in (SUBSET (0 .. SymbolCount - 1)) \ {{}},
        out \in 0 .. SymbolCount - 1 }

RuleLists == [1 .. RuleCount -> WorldRules]

Uniform(n, s) == [i \in Cells(n) |-> s]

\* symbol_to_color as World::new fills it: one (r, g, b) per symbol, each
\* channel a random(0, 255) as u8. The tables explored are numbered by k.
Shade(k, s) == (k * (s + 1)) % 256

ColorTable(k, n) ==
    [s \in 0 .. n - 1 |-> << Shade(k, s), Shade(k + 1, s), Shade(k + 2, s) >>]

ColorTables(n) == { ColorTable(k, n) : k \in ColorKeys }

SeedCells(n) == { (k * SeedStride) % (n * n) : k \in 0 .. MaxSeedCells - 1 }

\* f32 values are held in units of 2^-24, the spacing of f32 just below 1.0.
One == 2 ^ 24

\* The spacing of f32 at the value p (in units of 2^-24): a power of two u
\* with p / u below 2^24, at least the u given.
RECURSIVE Ulp(_, _)
Ulp(p, u) == IF p \div u < One THEN u ELSE Ulp(p, 2 * u)

\* An exact product p, as the f32 multiplication returns it: rounded to 24
\* significant bits, to nearest, ties to the even significand.
RoundF32(p) ==
    LET u == Ulp(p, 1)
        q == p \div u
        rem == p % u
        up == 2 * rem > u \/ (2 * rem = u /\ q % 2 = 1)
    IN  (IF up THEN q + 1 ELSE q) * u

\* rng.gen::<f32>() returns k * 2^-24 with k in 0 .. 2^24 - 1. The draws
\* explored: both ends of that range, their neighbors and the middle.
RandomDraws == {0, 1, One \div 2 - 1, One \div 2, One - 2, One - 1}

\* (r * symbol_count as f32).round() as u32, for r = k * 2^-24.
RandomSymbolRounded(k, sc) == (RoundF32(k * sc) + One \div 2) \div One

\* (r * self.symbol_count as f32).floor() as u32, for r = k * 2^-24.
RandomSymbol(k, sc) == RoundF32(k * sc) \div One

RandomSymbols(sc) == { RandomSymbol(k, sc) : k \in RandomDraws }

\* On the wide grid the seed cells are the corners of a square of side
\* SparseGap: a change spreads one cell per generation, and the cell farthest
\* from all four corners is (n - SparseGap) \div 2 cells away.
SparseCells(n) == { SparseGap * (a + n * b) : a, b \in {0, 1} }

SeedCellsOf(n) == IF n \in LongSizes THEN SparseCells(n) ELSE SeedCells(n)

RandomGrids(n) ==
    { [i \in Cells(n) |-> IF i \in SeedCellsOf(n) THEN v[i] ELSE 0] :
        v \in [SeedCellsOf(n) -> RandomSymbols(SymbolCount)] }
    \cup { Uniform(n, s) : s \in RandomSymbols(SymbolCount) }

---------------------------------------------------------------------------
(* World::new, World::randomize, World::step. *)

NewWorld(n, rs, colors) ==
    /\ size = n
    /\ symbol_count = SymbolCount
    /\ rules = rs
    /\ symbol_to_color = colors
    /\ data = Uniform(n, 0)
    /\ prev_data = Uniform(n, 0)
    /\ cell_changed_flags = [i \in Cells(n) |-> TRUE]
    /\ neighborhood_changed_flags = [i \in Cells(n) |-> TRUE]

StepDataCopied ==
    [i \in Cells(size) |->
        IF neighborhood_changed_flags[i]
        THEN compute_transition(data, size, PosOf(i, size), rules)
        ELSE data[i]]

StepDataCleared ==
    [i \in Cells(size) |->
        IF neighborhood_changed_flags[i]
        THEN compute_transition(data, size, PosOf(i, size), rules)
        ELSE 0]

\* The transition phase. The buffers have been swapped: the pre-step data is
\* read, and a cell whose flag is false keeps what the pre-step prev_data held.
StepData ==
    [i \in Cells(size) |->
        IF neighborhood_changed_flags[i]
        THEN compute_transition(data, size, PosOf(i, size), rules)
        ELSE prev_data[i]]

StepCellChangedOldBuffer(new_data) ==
    [i \in Cells(size) |->
        IF neighborhood_changed_flags[i] THEN new_data[i] # prev_data[i] ELSE FALSE]

\* cell_changed_flags: all reset to false, then set by the cells evaluated.
StepCellChanged(new_data) ==
    [i \in Cells(size) |->
        IF neighborhood_changed_flags[i] THEN new_data[i] # data[i] ELSE FALSE]

ErosionIndicesPlus(world_size, i) ==
    LET xc == i % world_size
        yc == (i - xc) \div world_size
    IN  { Wrap(yc + d[2], world_size) * world_size + Wrap(xc + d[1], world_size) :
            d \in { << 0, 0 >>, << 1, 0 >>, << -1, 0 >>, << 0, 1 >>, << 0, -1 >> } }

\* The indices ii = yy*world_size + xx the erosion pass computes around cell i.
ErosionIndices(world_size, i) ==
    LET xc == i % world_size
        yc == (i - xc) \div world_size
    IN  { (IF y < 0 THEN world_size - 1 ELSE IF y = world_size THEN 0 ELSE y)
              * world_size
            + (IF x < 0 THEN world_size - 1 ELSE IF x = world_size THEN 0 ELSE x) :
            y \in (yc - 1) .. (yc + 1), x \in (xc - 1) .. (xc + 1) }

ErodeOwnCell(changed) == changed

ErodeAlwaysDirty(changed) == [i \in Cells(size) |-> TRUE]

\* The erosion pass over this generation's cell_changed_flags.
Erode(changed) ==
    [i \in Cells(size) |->
        \E ii \in ErosionIndices(size, i) : changed[ii]]

StepWorld ==
    /\ prev_data' = data
    /\ data' = StepData
    /\ cell_changed_flags' = StepCellChanged(data')
    /\ neighborhood_changed_flags' = Erode(cell_changed_flags')
    /\ gate_flags' = neighborhood_changed_flags
    /\ UNCHANGED <<size, symbol_count, rules, symbol_to_color>>

RandomizeWorldDirty ==
    /\ \E g \in RandomGrids(size) : data' = g
    /\ neighborhood_changed_flags' = [i \in Cells(size) |-> TRUE]
    /\ UNCHANGED <<size, symbol_count, rules, symbol_to_color, prev_data,
                   cell_changed_flags, gate_flags>>

RandomizeWorld ==
    /\ \E g \in RandomGrids(size) : data' = g
    /\ UNCHANGED <<size, symbol_count, rules, symbol_to_color, prev_data,
                   cell_changed_flags, neighborhood_changed_flags, gate_flags>>

\* The stepper without the dirty-flag gate: every cell is evaluated.
ReferenceStep(grid) ==
    [i \in Cells(size) |-> compute_transition(grid, size, PosOf(i, size), rules)]

IdleCall ==
    /\ call_pos = << 0, 0 >>
    /\ call_state = "idle"
    /\ read_indices = {}
    /\ symbol_counts_set = {}
    /\ rule_matched = << >>
    /\ call_ret = 0

FreshHistory ==
    /\ gate_flags = neighborhood_changed_flags
    /\ reference = data
    /\ initial_data = data
    /\ steps = 0
    /\ randomize_calls = 0

IdleMain ==
    /\ pc = "idle"
    /\ seed = 0
    /\ count = 0
    /\ unique_frame_hashes = {}
    /\ last_frames_cell_changes_anded_1 = << >>
    /\ last_frames_cell_changes_anded_2 = << >>
    /\ already_printed_details = FALSE
    /\ exploration_count = 0
    /\ printed = << >>
    /\ generations = << >>
    /\ change_history = << >>
    /\ finished = {}

Threads == 1 .. ThreadCount

\* World::new is not being executed.
IdleNew ==
    /\ new_pc = "done"
    /\ new_args = << >>
    /\ rule_count = 0
    /\ prob_match = 0
    /\ world_rules = << >>
    /\ last_sampled = {}

\* No step() is in progress, the counters as the program starts with them.
IdlePar ==
    /\ phase = "idle"
    /\ next_cell = 0
    /\ thread_pc = [t \in Threads |-> "idle"]
    /\ thread_cell = [t \in Threads |-> 0]
    /\ thread_reg = [t \in Threads |-> 0]
    /\ task_reads = [t \in Threads |-> {}]
    /\ task_writes = [t \in Threads |-> {}]
    /\ scratch_counter_1 = 0
    /\ scratch_counter_2 = 0
    /\ scratch_counter_3 = 0

---------------------------------------------------------------------------
(* Spec: World::new, optionally one randomize(), then step() calls. *)

Init ==
    /\ \E n \in StepSizes, rs \in RuleLists, colors \in ColorTables(SymbolCount) :
          NewWorld(n, rs, colors)
    /\ FreshHistory
    /\ IdleCall
    /\ IdleMain
    /\ IdleNew
    /\ IdlePar

Randomize ==
    /\ steps = 0
    /\ randomize_calls = 0
    /\ RandomizeWorld
    /\ reference' = data'
    /\ initial_data' = data'
    /\ randomize_calls' = 1
    /\ UNCHANGED <<steps, callVars, mainVars, newVars, parVars>>

Step ==
    /\ steps < MaxSteps
    /\ StepWorld
    /\ reference' = ReferenceStep(reference)
    /\ steps' = steps + 1
    /\ UNCHANGED <<initial_data, randomize_calls, callVars, mainVars, newVars, parVars>>

Next == Randomize \/ Step

Spec == Init /\ [][Next]_vars

---------------------------------------------------------------------------
(* SpecAny: World::new, then the public operations in any order. *)

InitAny ==
    /\ \E n \in AnySizes, rs \in RuleLists, colors \in ColorTables(SymbolCount) :
          NewWorld(n, rs, colors)
    /\ FreshHistory
    /\ IdleCall
    /\ IdleMain
    /\ IdleNew
    /\ IdlePar

RandomizeAny ==
    /\ randomize_calls < MaxRandomize
    /\ RandomizeWorld
    /\ reference' = data'
    /\ randomize_calls' = randomize_calls + 1
    /\ UNCHANGED <<initial_data, steps, callVars, mainVars, newVars, parVars>>

NextAny == RandomizeAny \/ Step

SpecAny == InitAny /\ [][NextAny]_vars

---------------------------------------------------------------------------
(* SpecFn: compute_transition called once on a buffer, a side, a position  *)
(* (in range, or with a coordinate equal to the side) and a rule list.     *)

InitFn ==
    /\ \E n \in FnSizes, rs \in RuleLists :
        \E g \in RandomGrids(n) :
          /\ size = n
          /\ symbol_count = SymbolCount
          /\ rules = rs
          /\ symbol_to_color = ColorTable(0, SymbolCount)
          /\ data = Uniform(n, 0)
          /\ prev_data = g
          /\ cell_changed_flags = [i \in Cells(n) |-> FALSE]
          /\ neighborhood_changed_flags = [i \in Cells(n) |-> TRUE]
          /\ call_pos \in (0 .. n) \X (0 .. n)
    /\ FreshHistory
    /\ IdleMain
    /\ IdleNew
    /\ IdlePar
    /\ call_state = "ready"
    /\ read_indices = {}
    /\ symbol_counts_set = {}
    /\ rule_matched = << >>
    /\ call_ret = 0

Call ==
    /\ call_state = "ready"
    /\ call_state' = "returned"
    /\ read_indices' = NeighborIndices(size, call_pos)
    /\ symbol_counts_set' =
          { prev_data[i] : i \in NeighborIndices(size, call_pos) \cap DOMAIN prev_data }
    /\ rule_matched' =
          [k \in 1 .. Len(rules) |-> RuleMatches(rules[k], symbol_counts_set')]
    /\ call_ret' = compute_transition(prev_data, size, call_pos, rules)
    /\ UNCHANGED <<worldVars, historyVars, call_pos, mainVars, newVars, parVars>>

NextFn == Call

SpecFn == InitFn /\ [][NextFn]_vars

---------------------------------------------------------------------------
(* main, built without the "interactive" feature.                         *)

\* World::new draws every random number from StdRng::seed_from_u64(seed): the
\* rule list is a function of the seed. The model numbers the rule lists and
\* takes the seed to be the number of the list it yields.
RuleOfIndex(r) ==
    LET mask == { b \in 0 .. SymbolCount - 1 :
                    (((r \div SymbolCount) + 1) \div (2 ^ b)) % 2 = 1 }
    IN  [symbols_needed |-> Ascending(mask, 0), output_symbol |-> r % SymbolCount]

Seeds == 0 .. (Cardinality(WorldRules) ^ RuleCount - 1)

ColorsOfSeed(sd) == ColorTable(sd, SymbolCount)

RulesOfSeed(sd) ==
    [k \in 1 .. RuleCount |->
        RuleOfIndex((sd \div (Cardinality(WorldRules) ^ (k - 1)))
                        % Cardinality(WorldRules))]

\* calculate_vec_hash: the digest DefaultHasher makes of the words of the
\* vector, represented by the word sequence it digests (collision-free).
calculate_vec_hash(vec) ==
    [k \in 1 .. Cardinality(DOMAIN vec) |-> vec[k - 1]]

\* bool_vec_diff_count: the loop over vec1 adds one for each index i where
\* vec2[i] != *v.
bool_vec_diff_count(vec1, vec2) ==
    Cardinality({ i \in DOMAIN vec1 : vec2[i] # vec1[i] })

\* if *v { accumulator[i] = true }
Accumulate(accumulator, flags) ==
    [i \in DOMAIN accumulator |-> accumulator[i] \/ flags[i]]

InFirstWindow(c) == c > sample_frame_count - 10 /\ c <= sample_frame_count - 5

InSecondWindow(c) == c > sample_frame_count - 5 /\ c <= sample_frame_count

IsInterestingDiffOnly(unique, diff) == diff > min_end_cell_diff

IsInterestingEither(unique, diff) ==
    unique = sample_frame_count \/ diff > min_end_cell_diff

\* unique_frame_hashes.len() == sample_frame_count
\*     && cell_change_diff_count > min_end_cell_diff
IsInteresting(unique, diff) ==
    unique = sample_frame_count /\ diff > min_end_cell_diff

RunEndsOnlyAtCap(new_count, there_were_changes) ==
    new_count = sample_frame_count

\* count == sample_frame_count || !there_were_changes
RunEnds(new_count, there_were_changes) ==
    new_count = sample_frame_count \/ ~there_were_changes

\* The state at the top of the outer loop's first iteration, after
\* World::new(size, symbol_count, avg_symbols_per_rule, seed).
MainStart(sizes) ==
    /\ \E n \in sizes, sd \in Seeds :
          /\ seed = sd
          /\ NewWorld(n, RulesOfSeed(sd), ColorsOfSeed(sd))
    /\ FreshHistory
    /\ IdleCall
    /\ IdleNew
    /\ IdlePar
    /\ pc = "randomize"
    /\ count = 0
    /\ unique_frame_hashes = {}
    /\ last_frames_cell_changes_anded_1 = << >>
    /\ last_frames_cell_changes_anded_2 = << >>
    /\ already_printed_details = FALSE
    /\ exploration_count = 0
    /\ printed = << >>
    /\ generations = << >>
    /\ change_history = << >>
    /\ finished = {}

\* world.randomize() and the locals of the run.
MainRandomize ==
    /\ pc = "randomize"
    /\ RandomizeWorld
    /\ count' = 0
    /\ unique_frame_hashes' = {}
    /\ last_frames_cell_changes_anded_1' = [i \in Cells(size) |-> FALSE]
    /\ last_frames_cell_changes_anded_2' = [i \in Cells(size) |-> FALSE]
    /\ already_printed_details' = FALSE
    /\ generations' = << >>
    /\ change_history' = << >>
    /\ steps' = 0
    /\ pc' = "loop"
    /\ UNCHANGED <<reference, initial_data, randomize_calls, callVars, seed,
                   exploration_count, printed, finished, newVars, parVars>>

\* One iteration of the inner loop: world.step(), the samples, count += 1,
\* and the end of the run when it is due.
MainLoop ==
    /\ pc = "loop"
    /\ StepWorld
    /\ steps' = steps + 1
    /\ generations' = Append(generations, data')
    /\ change_history' = Append(change_history, cell_changed_flags')
    /\ unique_frame_hashes' =
          IF count <= sample_frame_count
          THEN unique_frame_hashes \cup { calculate_vec_hash(data') }
          ELSE unique_frame_hashes
    /\ last_frames_cell_changes_anded_1' =
          IF InFirstWindow(count)
          THEN Accumulate(last_frames_cell_changes_anded_1, cell_changed_flags')
          ELSE last_frames_cell_changes_anded_1
    /\ last_frames_cell_changes_anded_2' =
          IF InSecondWindow(count)
          THEN Accumulate(last_frames_cell_changes_anded_2, cell_changed_flags')
          ELSE last_frames_cell_changes_anded_2
    /\ count' = count + 1
    /\ LET there_were_changes == \E i \in Cells(size) : cell_changed_flags'[i]
           cell_change_diff_count ==
               bool_vec_diff_count(last_frames_cell_changes_anded_1',
                                   last_frames_cell_changes_anded_2')
           unique == Cardinality(unique_frame_hashes')
       IN  IF RunEnds(count', there_were_changes)
           THEN /\ printed' =
                      IF IsInteresting(unique, cell_change_diff_count)
                      THEN Append(printed, << unique, cell_change_diff_count, seed >>)
                      ELSE printed
                /\ already_printed_details' = TRUE
                /\ exploration_count' = exploration_count + 1
                /\ finished' = finished \cup
                      { [seed |-> seed, unique |-> unique,
                         diff |-> cell_change_diff_count] }
                /\ pc' = "next"
           ELSE /\ pc' = "loop"
                /\ UNCHANGED <<printed, already_printed_details,
                               exploration_count, finished>>
    /\ UNCHANGED <<reference, initial_data, randomize_calls, callVars, seed,
                   newVars, parVars>>

\* The next iteration of the outer loop, up to World::new: last_seed is 0
\* throughout this build, so the seed is rand::random::<u64>().
MainNextRun ==
    /\ pc = "next"
    /\ exploration_count < MaxRuns
    /\ \E sd \in Seeds :
          /\ seed' = sd
          /\ rules' = RulesOfSeed(sd)
          /\ symbol_to_color' = ColorsOfSeed(sd)
    /\ data' = Uniform(size, 0)
    /\ prev_data' = Uniform(size, 0)
    /\ cell_changed_flags' = [i \in Cells(size) |-> TRUE]
    /\ neighborhood_changed_flags' = [i \in Cells(size) |-> TRUE]
    /\ gate_flags' = [i \in Cells(size) |-> TRUE]
    /\ pc' = "randomize"
    /\ UNCHANGED <<size, symbol_count, reference, initial_data, steps,
                   randomize_calls, callVars, count, unique_frame_hashes,
                   last_frames_cell_changes_anded_1,
                   last_frames_cell_changes_anded_2, already_printed_details,
                   exploration_count, printed, generations, change_history,
                   finished, newVars, parVars>>

InitMain == MainStart(MainSizes)

NextMain == MainRandomize \/ MainLoop

SpecMain == InitMain /\ [][NextMain]_vars

\* main is one sequential thread: while the run has not ended, the next
\* statement executes.
FairMain == SpecMain /\ WF_vars(NextMain)

\* The same loop on the wide grid.
InitLong == MainStart(LongSizes)

SpecLong == InitLong /\ [][NextMain]_vars

InitRuns == MainStart(RunsSizes)

NextRuns == MainRandomize \/ MainLoop \/ MainNextRun

SpecRuns == InitRuns /\ [][NextRuns]_vars

---------------------------------------------------------------------------
(* SpecNew: World::new, statement by statement.                           *)

\* The closure random(start, end) returns
\* start + (r * (end-start) as f32).round() as u32 with r in [0, 1), a value
\* of start .. end. The draws explored are the two ends of that range.
random(start, end) == {start, end}

\* The f32 values of World::new lie in [0, 1], in units of 2^-24 (One); a
\* product is rounded to the nearest unit.
Radix == 2 ^ 12

MulFp(x, y) ==
    LET xh == x \div Radix
        xl == x % Radix
        yh == y \div Radix
        yl == y % Radix
    IN  xh * yh
          + (xh * yl + xl * yh + ((xl * yl) \div Radix) + (Radix \div 2)) \div Radix

\* x.powf(n as f32) for x in [0, 1]. A non-positive n only arises from a
\* wrapped rule_count: 1.0 to any power is 1.0, x < 1.0 to a negative power
\* is above 1.0.
RECURSIVE PowFp(_, _)
PowFp(x, n) ==
    IF n <= 0 THEN (IF n = 0 \/ x = One THEN One ELSE One + One)
    ELSE IF n % 2 = 0 THEN PowFp(MulFp(x, x), n \div 2)
    ELSE MulFp(x, PowFp(x, n - 1))

\* 0.999 as f32
Threshold == 16760439

\* let a = (1.0 - (1.0 / symbol_count as f32)).powf(9.0);
\* let b = 1.0 - (1.0 - a).powf(avg_symbols_per_rule as f32);
\* prob_match = 1.0 - b.powf(rule_count as f32);
ProbMatch(sc, avg, rc) ==
    LET a == PowFp(One - (One + (sc \div 2)) \div sc, 9)
        b == One - PowFp(One - a, avg)
    IN  One - PowFp(b, rc)

LoopContinuesLoose(pm) == pm < Threshold \div 2

\* while prob_match < 0.999
LoopContinues(pm) == pm < Threshold

\* rule_count is an i32: the largest value rule_count *= 2 can double.
I32HalfMax == 2 ^ 30

\* rule_count *= 2 in a build without overflow checks.
WrappingDouble(x) ==
    IF x = I32HalfMax THEN (-I32HalfMax) - I32HalfMax
    ELSE IF x = (-I32HalfMax) - I32HalfMax THEN 0
    ELSE 2 * x

IsPowerOfTwo(n) == \E k \in 0 .. 30 : 2 ^ k = n

\* (world_size as f32).log(2.0) % 1.0 == 0.0: ln(world_size) / ln(2) in f32
\* has no fractional part. For world_size below 8192 that is so exactly for
\* the powers of two (0 gives -inf, whose remainder is NaN).
SizeAssertHolds(world_size) == IsPowerOfTwo(world_size)

\* add_symbol_chance < 1.0, with add_symbol_chance = avg / symbol_count
ChanceAssertHolds(sc, avg) == avg < sc

\* The sets of symbols the sampling loop can select: symbol is pushed when
\* (random(0, 1000) as f32) < add_symbol_chance*1000.0.
SampledSets(sc, avg) ==
    { m \in SUBSET (0 .. sc - 1) :
        /\ m # {} => \E d \in random(0, 1000) : d * sc < avg * 1000
        /\ m # 0 .. sc - 1 => \E d \in random(0, 1000) : ~(d * sc < avg * 1000) }

\* The selected symbols in the order of the loop over 0..symbol_count.
RECURSIVE AscendingBelow(_, _, _)
AscendingBelow(mask, from, sc) ==
    IF from >= sc THEN << >>
    ELSE IF from \in mask THEN << from >> \o AscendingBelow(mask, from + 1, sc)
    ELSE AscendingBelow(mask, from + 1, sc)

SampleRuleUnforced(sampled, forced, out, sc) ==
    [symbols_needed |-> AscendingBelow(sampled, 0, sc), output_symbol |-> out]

\* One iteration of the loop over 0..rule_count.
SampleRule(sampled, forced, out, sc) ==
    [symbols_needed |->
        IF AscendingBelow(sampled, 0, sc) = << >> THEN << forced >>
        ELSE AscendingBelow(sampled, 0, sc),
     output_symbol |-> out]

NewCalls ==
    { [world_size |-> n, symbol_count |-> 2, avg_symbols_per_rule |-> 1] :
        n \in 0 .. MaxNewSize }
    \cup { [world_size |-> 1, symbol_count |-> sc, avg_symbols_per_rule |-> avg] :
              sc \in NewSymbolCounts, avg \in 0 .. MaxNewAvg }
    \cup { [world_size |-> 2, symbol_count |-> 20, avg_symbols_per_rule |-> 19] }

InitNew ==
    /\ new_pc = "assert_size"
    /\ new_args \in NewCalls
    /\ rule_count = 0
    /\ prob_match = 0
    /\ world_rules = << >>
    /\ last_sampled = {}
    /\ size = 0
    /\ symbol_count = 0
    /\ rules = << >>
    /\ symbol_to_color = << >>
    /\ data = << >>
    /\ prev_data = << >>
    /\ cell_changed_flags = << >>
    /\ neighborhood_changed_flags = << >>
    /\ FreshHistory
    /\ IdleCall
    /\ IdleMain
    /\ IdlePar

NewFrame == UNCHANGED <<size, symbol_count, rules, data, prev_data,
                        cell_changed_flags, neighborhood_changed_flags,
                        historyVars, callVars, mainVars, parVars, new_args>>

\* assert!( (world_size as f32).log(2.0) % 1.0 == 0.0, ... )
NewAssertSize ==
    /\ new_pc = "assert_size"
    /\ new_pc' = IF SizeAssertHolds(new_args.world_size) THEN "colors" ELSE "aborted"
    /\ UNCHANGED <<symbol_to_color, rule_count, prob_match, world_rules, last_sampled>>
    /\ NewFrame

\* The color table, then let mut rule_count = 1; let mut prob_match = 0.0;
NewColors ==
    /\ new_pc = "colors"
    /\ symbol_to_color' \in ColorTables(new_args.symbol_count)
    /\ rule_count' = 1
    /\ prob_match' = 0
    /\ new_pc' = "calibrate"
    /\ UNCHANGED <<world_rules, last_sampled>>
    /\ NewFrame

\* One iteration of the calibration loop. When rule_count *= 2 overflows,
\* a build with overflow checks panics and a build without them wraps.
NewCalibrate ==
    /\ new_pc = "calibrate"
    /\ LoopContinues(prob_match)
    /\ \/ /\ rule_count = I32HalfMax
          /\ new_pc' = "aborted"
          /\ UNCHANGED <<rule_count, prob_match>>
       \/ /\ rule_count' = WrappingDouble(rule_count)
          /\ prob_match' = ProbMatch(new_args.symbol_count,
                                     new_args.avg_symbols_per_rule, rule_count')
          /\ UNCHANGED new_pc
    /\ UNCHANGED <<symbol_to_color, world_rules, last_sampled>>
    /\ NewFrame

\* The loop has ended: assert!(add_symbol_chance < 1.0);
NewAssertChance ==
    /\ new_pc = "calibrate"
    /\ ~LoopContinues(prob_match)
    /\ new_pc' = IF ChanceAssertHolds(new_args.symbol_count,
                                      new_args.avg_symbols_per_rule)
                 THEN "rules" ELSE "aborted"
    /\ UNCHANGED <<symbol_to_color, rule_count, prob_match, world_rules,
                   last_sampled>>
    /\ NewFrame

NewSampleRule ==
    /\ new_pc = "rules"
    /\ Len(world_rules) < rule_count
    /\ \E sampled \in SampledSets(new_args.symbol_count,
                                   new_args.avg_symbols_per_rule),
          forced \in random(0, new_args.symbol_count - 1),
          out \in random(0, new_args.symbol_count - 1) :
          /\ world_rules' = Append(world_rules,
                                   SampleRule(sampled, forced, out,
                                              new_args.symbol_count))
          /\ last_sampled' = sampled
    /\ UNCHANGED <<new_pc, symbol_to_color, rule_count, prob_match>>
    /\ NewFrame

\* assert!( !world_rules.is_empty() ); World { .. }
NewReturn ==
    /\ new_pc = "rules"
    /\ Len(world_rules) >= rule_count
    /\ IF world_rules = << >>
       THEN /\ new_pc' = "aborted"
            /\ UNCHANGED <<size, symbol_count, rules, data, prev_data,
                           cell_changed_flags, neighborhood_changed_flags>>
       ELSE /\ new_pc' = "returned"
            /\ size' = new_args.world_size
            /\ symbol_count' = new_args.symbol_count
            /\ rules' = world_rules
            /\ data' = Uniform(new_args.world_size, 0)
            /\ prev_data' = Uniform(new_args.world_size, 0)
            /\ cell_changed_flags' = [i \in Cells(new_args.world_size) |-> TRUE]
            /\ neighborhood_changed_flags' =
                  [i \in Cells(new_args.world_size) |-> TRUE]
    /\ UNCHANGED <<symbol_to_color, rule_count, prob_match, world_rules,
                   last_sampled, new_args, historyVars, callVars, mainVars,
                   parVars>>

NextNew ==
    \/ NewAssertSize
    \/ NewColors
    \/ NewCalibrate
    \/ NewAssertChance
    \/ NewSampleRule
    \/ NewReturn

SpecNew == InitNew /\ [][NextNew]_vars

---------------------------------------------------------------------------
(* SpecPar: step() task by task. Each of the two parallel iterators runs   *)
(* one task per cell on the worker threads of the pool; a thread runs one  *)
(* task at a time, and for_each returns when every task has ended.         *)

Location(buffer, i) == << buffer, i >>

\* The iterations of the loop over rule.symbols_needed, from symbol k on.
RECURSIVE TestsIn(_, _, _)
TestsIn(symbols_needed, symbols, k) ==
    IF k > Len(symbols_needed) THEN 0
    ELSE IF symbols_needed[k] \notin symbols THEN 1
    ELSE 1 + TestsIn(symbols_needed, symbols, k + 1)

\* The number of times compute_transition executes scratch_counter_3 += 1.
RECURSIVE SymbolTests(_, _, _)
SymbolTests(rs, symbols, k) ==
    IF k > Len(rs) THEN 0
    ELSE TestsIn(rs[k].symbols_needed, symbols, 1)
           + (IF RuleMatches(rs[k], symbols) THEN 0
              ELSE SymbolTests(rs, symbols, k + 1))

InitPar ==
    /\ \E n \in ParSizes, rs \in RuleLists, colors \in ColorTables(SymbolCount) :
          NewWorld(n, rs, colors)
    /\ FreshHistory
    /\ IdleCall
    /\ IdleMain
    /\ IdleNew
    /\ IdlePar

ParFrame == UNCHANGED <<size, symbol_count, rules, symbol_to_color, callVars,
                        mainVars, newVars, initial_data, randomize_calls>>

\* mem::swap, the reset of cell_changed_flags, and the start of the first
\* parallel iterator.
StepBegin ==
    /\ phase = "idle"
    /\ steps < MaxParSteps
    /\ data' = prev_data
    /\ prev_data' = data
    /\ cell_changed_flags' = [i \in Cells(size) |-> FALSE]
    /\ gate_flags' = neighborhood_changed_flags
    /\ phase' = "transition"
    /\ next_cell' = 0
    /\ UNCHANGED <<neighborhood_changed_flags, reference, steps, thread_pc,
                   thread_cell, thread_reg, task_reads, task_writes,
                   scratch_counter_1, scratch_counter_2, scratch_counter_3>>
    /\ ParFrame

\* A thread starts the task of the next cell: if !*neighborhood_changed_flag
\* { return; }
TaskStart(t) ==
    /\ phase = "transition"
    /\ thread_pc[t] = "idle"
    /\ next_cell < size * size
    /\ thread_cell' = [thread_cell EXCEPT ![t] = next_cell]
    /\ next_cell' = next_cell + 1
    /\ task_reads' = [task_reads EXCEPT
                         ![t] = { Location("neighborhood_changed_flags", next_cell) }]
    /\ task_writes' = [task_writes EXCEPT ![t] = {}]
    /\ thread_pc' = [thread_pc EXCEPT
                        ![t] = IF neighborhood_changed_flags[next_cell]
                               THEN "entered" ELSE "idle"]
    /\ UNCHANGED <<data, prev_data, cell_changed_flags, neighborhood_changed_flags,
                   gate_flags, reference, steps, phase, thread_reg,
                   scratch_counter_1, scratch_counter_2, scratch_counter_3>>
    /\ ParFrame

\* unsafe { scratch_counter_1 += 1; }: the load
TaskLoadCounter(t) ==
    /\ thread_pc[t] = "entered"
    /\ thread_reg' = [thread_reg EXCEPT ![t] = scratch_counter_1]
    /\ task_reads' = [task_reads EXCEPT
                         ![t] = @ \cup { Location("scratch_counter_1", 0) }]
    /\ thread_pc' = [thread_pc EXCEPT ![t] = "loaded"]
    /\ UNCHANGED <<data, prev_data, cell_changed_flags, neighborhood_changed_flags,
                   gate_flags, reference, steps, phase, next_cell, thread_cell,
                   task_writes, scratch_counter_1, scratch_counter_2,
                   scratch_counter_3>>
    /\ ParFrame

\* unsafe { scratch_counter_1 += 1; }: the store
TaskStoreCounter(t) ==
    /\ thread_pc[t] = "loaded"
    /\ scratch_counter_1' = thread_reg[t] + 1
    /\ task_writes' = [task_writes EXCEPT
                          ![t] = @ \cup { Location("scratch_counter_1", 0) }]
    /\ thread_pc' = [thread_pc EXCEPT ![t] = "stored"]
    /\ UNCHANGED <<data, prev_data, cell_changed_flags, neighborhood_changed_flags,
                   gate_flags, reference, steps, phase, next_cell, thread_cell,
                   thread_reg, task_reads, scratch_counter_2, scratch_counter_3>>
    /\ ParFrame

\* The rest of the task: the neighbourhood and rule loops of
\* compute_transition with their counter increments, *cell = next_value,
\* *cell_changed_flag = next_value != current_value.
TaskCompute(t) ==
    /\ thread_pc[t] = "stored"
    /\ LET i == thread_cell[t]
           pos == PosOf(i, size)
           next_value == compute_transition(prev_data, size, pos, rules)
       IN  /\ data' = [data EXCEPT ![i] = next_value]
           /\ cell_changed_flags' =
                 [cell_changed_flags EXCEPT ![i] = next_value # prev_data[i]]
           /\ scratch_counter_2' = scratch_counter_2 + 9
           /\ scratch_counter_3' =
                 scratch_counter_3
                   + SymbolTests(rules, GatheredSymbols(prev_data, size, pos), 1)
           /\ task_reads' = [task_reads EXCEPT
                 ![t] = @ \cup { Location("prev_data", j) :
                                   j \in NeighborIndices(size, pos) }
                         \cup { Location("scratch_counter_2", 0),
                                Location("scratch_counter_3", 0) }]
           /\ task_writes' = [task_writes EXCEPT
                 ![t] = @ \cup { Location("data", i),
                                Location("cell_changed_flags", i),
                                Location("scratch_counter_2", 0),
                                Location("scratch_counter_3", 0) }]
    /\ thread_pc' = [thread_pc EXCEPT ![t] = "idle"]
    /\ UNCHANGED <<prev_data, neighborhood_changed_flags, gate_flags, reference,
                   steps, phase, next_cell, thread_cell, thread_reg,
                   scratch_counter_1>>
    /\ ParFrame

\* The first for_each returns; the second parallel iterator starts.
TransitionJoin ==
    /\ phase = "transition"
    /\ next_cell = size * size
    /\ \A t \in Threads : thread_pc[t] = "idle"
    /\ phase' = "erosion"
    /\ next_cell' = 0
    /\ UNCHANGED <<data, prev_data, cell_changed_flags, neighborhood_changed_flags,
                   gate_flags, reference, steps, thread_pc, thread_cell,
                   thread_reg, task_reads, task_writes, scratch_counter_1,
                   scratch_counter_2, scratch_counter_3>>
    /\ ParFrame

\* A thread starts the erosion task of the next cell and reads the flags
\* around it.
ErodeStart(t) ==
    /\ phase = "erosion"
    /\ thread_pc[t] = "idle"
    /\ next_cell < size * size
    /\ thread_cell' = [thread_cell EXCEPT ![t] = next_cell]
    /\ next_cell' = next_cell + 1
    /\ task_reads' = [task_reads EXCEPT
                         ![t] = { Location("cell_changed_flags", ii) :
                                    ii \in ErosionIndices(size, next_cell) }]
    /\ task_writes' = [task_writes EXCEPT ![t] = {}]
    /\ thread_pc' = [thread_pc EXCEPT ![t] = "eroding"]
    /\ UNCHANGED <<data, prev_data, cell_changed_flags, neighborhood_changed_flags,
                   gate_flags, reference, steps, phase, thread_reg,
                   scratch_counter_1, scratch_counter_2, scratch_counter_3>>
    /\ ParFrame

\* *neighborhood_changed_flag = true or false
ErodeFinish(t) ==
    /\ thread_pc[t] = "eroding"
    /\ neighborhood_changed_flags' =
          [neighborhood_changed_flags EXCEPT
              ![thread_cell[t]] =
                  \E ii \in ErosionIndices(size, thread_cell[t]) :
                      cell_changed_flags[ii]]
    /\ task_writes' = [task_writes EXCEPT
          ![t] = @ \cup { Location("neighborhood_changed_flags", thread_cell[t]) }]
    /\ thread_pc' = [thread_pc EXCEPT ![t] = "idle"]
    /\ UNCHANGED <<data, prev_data, cell_changed_flags, gate_flags, reference,
                   steps, phase, next_cell, thread_cell, thread_reg, task_reads,
                   scratch_counter_1, scratch_counter_2, scratch_counter_3>>
    /\ ParFrame

\* The second for_each returns, and step() with it.
ErosionJoin ==
    /\ phase = "erosion"
    /\ next_cell = size * size
    /\ \A t \in Threads : thread_pc[t] = "idle"
    /\ phase' = "idle"
    /\ steps' = steps + 1
    /\ reference' = ReferenceStep(reference)
    /\ UNCHANGED <<data, prev_data, cell_changed_flags, neighborhood_changed_flags,
                   gate_flags, next_cell, thread_pc, thread_cell, thread_reg,
                   task_reads, task_writes, scratch_counter_1, scratch_counter_2,
                   scratch_counter_3>>
    /\ ParFrame

NextPar ==
    \/ StepBegin
    \/ TransitionJoin
    \/ ErosionJoin
    \/ \E t \in Threads :
          \/ TaskStart(t)
          \/ TaskLoadCounter(t)
          \/ TaskStoreCounter(t)
          \/ TaskCompute(t)
          \/ ErodeStart(t)
          \/ ErodeFinish(t)

SpecPar == InitPar /\ [][NextPar]_vars

---------------------------------------------------------------------------
(* Vocabulary of the properties, stated without the model's operators.    *)

\* The toroidal 3x3 neighbourhood of cell i on a grid of side n.
Torus(i, n) ==
    { (((i \div n) + dy) % n) * n + (((i % n) + dx) % n) :
        dy \in {-1, 0, 1}, dx \in {-1, 0, 1} }

InRange(pos, n) == pos[1] < n /\ pos[2] < n

NoCellChanged == \A i \in Cells(size) : ~cell_changed_flags[i]

TypeOK ==
    /\ data \in [Cells(size) -> 0 .. symbol_count - 1]
    /\ prev_data \in [Cells(size) -> 0 .. symbol_count - 1]

---------------------------------------------------------------------------
(* Properties of step() and randomize().                                  *)

SomeCellSkipped == \E i \in Cells(size) : ~gate_flags[i]

SomeCellChanged == \E i \in Cells(size) : cell_changed_flags[i]

\* C1. Dirty-flag soundness: after at least one step(), a cell whose whole
\* toroidal 3x3 neighbourhood has cell_changed = false keeps its value in
\* data across the next step().
DirtyFlagSoundness ==
    [][ (steps >= 1 /\ steps' = steps + 1) =>
          \A i \in Cells(size) :
              (\A j \in Torus(i, size) : ~cell_changed_flags[j])
                  => data'[i] = data[i] ]_vars

\* A second or later step() skipped a cell whose neighbourhood was quiet
\* while cells elsewhere still changed.
DirtyFlagSoundnessWitness ==
    steps >= 2 /\ SomeCellSkipped /\ SomeCellChanged

\* C2. Skipping is a no-op: after every number k >= 1 of step() calls, data
\* equals the grid of the stepper that evaluates every cell in every
\* generation.
SkipIsNoOp == steps >= 1 => data = reference

\* Three or more steps, the last of which skipped some cells and changed
\* others, after a randomize().
SkipIsNoOpWitness ==
    /\ steps >= 3
    /\ randomize_calls = 1
    /\ SomeCellSkipped
    /\ data # prev_data

\* C3. The stability invariant over the whole public interface: a cell whose
\* neighborhood_changed flag is false holds the same value in data and in
\* prev_data, whatever the order of randomize() and step() calls.
StabilityInvariant ==
    \A i \in Cells(size) :
        ~neighborhood_changed_flags[i] => data[i] = prev_data[i]

Needed(rule) == { rule.symbols_needed[k] : k \in 1 .. Len(rule.symbols_needed) }

EveryRuleNeedsOther(s) ==
    \A k \in 1 .. Len(rules) : \E q \in Needed(rules[k]) : q # s

\* C7. Quiescence termination: from a fresh grid uniformly holding s, under
\* rules that each need a symbol other than s, the first step() ends with no
\* cell changed, and every state after it has the same data, cell_changed
\* and neighborhood_changed flags (all false).
QuiescenceTermination ==
    \A s \in 0 .. symbol_count - 1 :
        (steps >= 1 /\ initial_data = Uniform(size, s) /\ EveryRuleNeedsOther(s))
            => /\ NoCellChanged
               /\ \A i \in Cells(size) : ~neighborhood_changed_flags[i]
               /\ data = initial_data

\* A uniform grid of symbol 1 (set by randomize()) stepped twice under rules
\* that all need symbol 0.
QuiescenceTerminationWitness ==
    /\ steps >= 2
    /\ initial_data = Uniform(size, 1)
    /\ EveryRuleNeedsOther(1)

\* C11. Frame effects: no step() and no randomize() changes the rules, the
\* color table, the grid side or symbol_count, and randomize() leaves
\* prev_data, cell_changed and neighborhood_changed as they were.
FrameEffects ==
    [][ /\ rules' = rules
        /\ symbol_to_color' = symbol_to_color
        /\ size' = size
        /\ symbol_count' = symbol_count
        /\ randomize_calls' # randomize_calls =>
              /\ prev_data' = prev_data
              /\ cell_changed_flags' = cell_changed_flags
              /\ neighborhood_changed_flags' = neighborhood_changed_flags ]_vars

\* randomize() was called after a step() that had cleared flags, and made
\* data differ from prev_data under a flag that is still false.
FrameEffectsWitness ==
    /\ randomize_calls >= 1
    /\ steps >= 1
    /\ data = reference
    /\ \E i \in Cells(size) :
          ~neighborhood_changed_flags[i] /\ data[i] # prev_data[i]

\* C14. After every step(), for every cell, computed or skipped:
\* cell_changed is true iff the cell's value in data differs from its value
\* in prev_data.
CellChangedIffDiffers ==
    steps >= 1 =>
        \A i \in Cells(size) : cell_changed_flags[i] <=> data[i] # prev_data[i]

\* A step() that skipped a cell, changed a cell, and evaluated a cell
\* without changing it.
CellChangedIffDiffersWitness ==
    /\ steps >= 2
    /\ SomeCellSkipped
    /\ SomeCellChanged
    /\ \E i \in Cells(size) : gate_flags[i] /\ ~cell_changed_flags[i]

\* C15. After every step(), neighborhood_changed is, at every cell, the OR
\* of this generation's cell_changed over the 9 cells of the toroidal 3x3
\* neighbourhood, and the erosion pass computes the same indices around a
\* cell as compute_transition does.
ErosionIsNeighborhoodOr ==
    /\ \A i \in Cells(size) :
          ErosionIndices(size, i) = NeighborIndices(size, PosOf(i, size))
    /\ steps >= 1 =>
          \A i \in Cells(size) :
              neighborhood_changed_flags[i] <=>
                  \E j \in Torus(i, size) : cell_changed_flags[j]

\* After a step() on the 8x8 grid, a cell that did not change is flagged
\* because a diagonal neighbour across the edge of the grid changed, while
\* other cells are not flagged.
ErosionIsNeighborhoodOrWitness ==
    /\ steps >= 1
    /\ size = 8
    /\ neighborhood_changed_flags[0]
    /\ cell_changed_flags[63]
    /\ \A j \in Torus(0, size) \ {63} : ~cell_changed_flags[j]
    /\ \E i \in Cells(size) : ~neighborhood_changed_flags[i]

\* C18. step() swaps the buffers without copying: prev_data after the step
\* is the data before it; a cell whose neighborhood_changed flag was false
\* at entry holds in data what prev_data held before the step, and its
\* cell_changed flag is false.
SwapWithoutCopy ==
    [][ steps' = steps + 1 =>
          /\ prev_data' = data
          /\ \A i \in Cells(size) :
                ~neighborhood_changed_flags[i] =>
                    /\ data'[i] = prev_data[i]
                    /\ ~cell_changed_flags'[i] ]_vars

\* A step() skipped a cell whose two buffers held different values: after
\* it the two values have changed places.
SwapWithoutCopyWitness ==
    /\ steps >= 2
    /\ randomize_calls >= 1
    /\ \E i \in Cells(size) : ~gate_flags[i] /\ data[i] # prev_data[i]

\* C20. Quiescence is absorbing: a step() that follows a step() which ended
\* with no cell changed ends with the same data, no cell changed and no
\* neighbourhood flagged.
QuiescenceAbsorbing ==
    [][ (steps >= 1 /\ NoCellChanged /\ steps' = steps + 1) =>
          /\ data' = data
          /\ \A i \in Cells(size) :
                ~cell_changed_flags'[i] /\ ~neighborhood_changed_flags'[i] ]_vars

\* A grid that changed, became quiescent, and was stepped again.
QuiescenceAbsorbingWitness ==
    /\ steps >= 3
    /\ data # initial_data
    /\ NoCellChanged
    /\ \A i \in Cells(size) : ~gate_flags[i]

RunningTasks == { t \in Threads : thread_pc[t] # "idle" }

\* C16. Within each phase of step(), no location is written by two tasks
\* that run concurrently, and no location read by one running task is
\* written by another.
TasksAreIndependent ==
    \A t1, t2 \in RunningTasks :
        t1 # t2 =>
            /\ task_writes[t1] \cap task_writes[t2] = {}
            /\ task_reads[t1] \cap task_writes[t2] = {}

---------------------------------------------------------------------------
(* Properties of World::new.                                              *)

WellFormed(rule, sc) ==
    /\ Len(rule.symbols_needed) >= 1
    /\ \A j, k \in 1 .. Len(rule.symbols_needed) :
          j # k => rule.symbols_needed[j] # rule.symbols_needed[k]
    /\ \A k \in 1 .. Len(rule.symbols_needed) :
          rule.symbols_needed[k] \in 0 .. sc - 1
    /\ rule.output_symbol \in 0 .. sc - 1

\* C12. Every rule World::new produces has a non-empty symbols_needed
\* without repeated symbol, all its symbols and its output_symbol in
\* [0, symbol_count); a rule for which the sampling selected no symbol has
\* exactly one symbol; the World returned holds these rules.
RulesWellFormed ==
    /\ \A k \in 1 .. Len(world_rules) :
          WellFormed(world_rules[k], new_args.symbol_count)
    /\ (world_rules # << >> /\ last_sampled = {}) =>
          Len(world_rules[Len(world_rules)].symbols_needed) = 1
    /\ new_pc = "returned" => (rules = world_rules /\ rules # << >>)

\* A World was returned whose last rule got a forced symbol and whose first
\* rule needs several symbols.
RulesWellFormedWitness ==
    /\ new_pc = "returned"
    /\ last_sampled = {}
    /\ Len(rules[1].symbols_needed) >= 2

ValidArgs ==
    /\ new_args.world_size >= 1
    /\ IsPowerOfTwo(new_args.world_size)
    /\ new_args.avg_symbols_per_rule < new_args.symbol_count

\* C13. World::new aborts whenever world_size is not a power of two or
\* avg_symbols_per_rule >= symbol_count, and otherwise returns a World with
\* the configuration it was given: an abort happens only for such
\* arguments, a return only for the others.
ConstructionOutcome ==
    /\ new_pc = "aborted" => ~ValidArgs
    /\ new_pc = "returned" =>
          /\ ValidArgs
          /\ size = new_args.world_size
          /\ symbol_count = new_args.symbol_count

PowersOfTwoBelow(n) == { q \in 1 .. n - 1 : IsPowerOfTwo(q) }

\* C19, as stated. The number R of rules of the World returned is a power
\* of two, the smallest power of two R >= 1 whose calibration probability
\* is at least 0.999.
SmallestRuleCount ==
    new_pc = "returned" =>
        /\ IsPowerOfTwo(Len(rules))
        /\ ProbMatch(symbol_count, new_args.avg_symbols_per_rule, Len(rules))
              >= Threshold
        /\ \A q \in PowersOfTwoBelow(Len(rules)) :
              ProbMatch(symbol_count, new_args.avg_symbols_per_rule, q)
                  < Threshold

\* C19, amended. R is a power of two, the smallest power of two R >= 2
\* whose calibration probability is at least 0.999: the candidates tried
\* are 2, 4, 8, ..., and R = 2 also where one rule already reaches the
\* probability (avg_symbols_per_rule = 0).
CalibratedRuleCount ==
    new_pc = "returned" =>
        /\ Len(rules) = rule_count
        /\ IsPowerOfTwo(Len(rules))
        /\ Len(rules) >= 2
        /\ ProbMatch(symbol_count, new_args.avg_symbols_per_rule, Len(rules))
              >= Threshold
        /\ \A q \in PowersOfTwoBelow(Len(rules)) \ {1} :
              ProbMatch(symbol_count, new_args.avg_symbols_per_rule, q)
                  < Threshold
        /\ new_args.avg_symbols_per_rule = 0 =>
              /\ Len(rules) = 2
              /\ ProbMatch(symbol_count, 0, 1) >= Threshold

\* A World returned with 4 rules: 2 rules were tried and did not reach the
\* probability.
CalibratedRuleCountWitness ==
    /\ new_pc = "returned"
    /\ Len(rules) = 4
    /\ ProbMatch(symbol_count, new_args.avg_symbols_per_rule, 2) < Threshold

---------------------------------------------------------------------------
(* Properties of compute_transition.                                      *)

Returned == call_state = "returned"

CallIndex == call_pos[2] * size + call_pos[1]

\* C4, as stated. Toroidal symmetry: the indices gathered for position
\* (N,N) are those gathered for position (0,0).
ToroidalSymmetry ==
    (Returned /\ call_pos = << size, size >>)
        => read_indices = NeighborIndices(size, << 0, 0 >>)

\* C4, amended. For an in-range position the indices gathered are exactly
\* the toroidal (mod N) 3x3 neighbourhood, all inside the buffer; for the
\* out-of-range position (N,N) coordinate N+1 is left as it is, the indices
\* differ from those of (0,0) and the read leaves the buffer.
WrapIsToroidal ==
    Returned =>
        /\ InRange(call_pos, size) =>
              /\ read_indices = Torus(CallIndex, size)
              /\ call_ret # IndexPanic
        /\ call_pos = << size, size >> =>
              /\ read_indices # NeighborIndices(size, << 0, 0 >>)
              /\ \E i \in read_indices : i \notin Cells(size)
              /\ call_ret = IndexPanic

\* A call at (0,0) on a grid of side 4, where both coordinates wrap.
WrapIsToroidalWitness ==
    Returned /\ size = 4 /\ call_pos = << 0, 0 >> /\ Cardinality(read_indices) = 9

MatchingRules(symbols) ==
    { k \in 1 .. Len(rules) : Needed(rules[k]) \subseteq symbols }

Lowest(S) == CHOOSE k \in S : \A m \in S : k <= m

\* C5. Rule priority and fallback: the value returned for an in-range cell is
\* the output_symbol of the lowest-index rule whose needed symbols all occur
\* in the toroidal neighbourhood, and the previous-buffer value of the cell
\* when there is no such rule.
RulePriority ==
    (Returned /\ InRange(call_pos, size)) =>
        LET present == { prev_data[j] : j \in Torus(CallIndex, size) }
            matching == MatchingRules(present)
        IN  IF matching = {}
            THEN call_ret = prev_data[CallIndex]
            ELSE call_ret = rules[Lowest(matching)].output_symbol

\* Both rules match the neighbourhood and their outputs differ.
RulePriorityWitness ==
    /\ Returned
    /\ InRange(call_pos, size)
    /\ Len(rules) >= 2
    /\ rule_matched[1] /\ rule_matched[2]
    /\ rules[1].output_symbol # rules[2].output_symbol
    /\ call_ret = rules[1].output_symbol

\* C6. A rule matches iff every needed symbol occurs in at least one of the
\* 9 toroidal neighbourhood cells; multiplicity and extra symbols do not
\* matter, so a superset of symbols_needed always matches.
RuleMatchIsSubset ==
    (Returned /\ InRange(call_pos, size)) =>
        \A k \in 1 .. Len(rules) :
            rule_matched[k] <=>
                \A q \in Needed(rules[k]) :
                    \E j \in Torus(CallIndex, size) : prev_data[j] = q

\* A rule matched a neighbourhood holding a symbol it does not need, with a
\* needed symbol occurring in several cells.
RuleMatchIsSubsetWitness ==
    /\ Returned
    /\ InRange(call_pos, size)
    /\ \E k \in 1 .. Len(rules) :
          /\ rule_matched[k]
          /\ Needed(rules[k]) # symbol_counts_set
          /\ \E q \in Needed(rules[k]) :
                Cardinality({ j \in Torus(CallIndex, size) : prev_data[j] = q }) >= 2

---------------------------------------------------------------------------
(* Properties of main's exploration loop.                                 *)

RunEnded == pc = "next"

\* C8. Determinism in the seed: any two runs that ended with the same seed
\* have the same unique_count and the same diff_count.
SeedDeterminesResult ==
    \A a \in finished, b \in finished : a.seed = b.seed => a = b

RunBoundary ==
    /\ pc \in {"loop", "next"} => steps = count
    /\ count <= sample_frame_count
    /\ RunEnded => (count = sample_frame_count \/ NoCellChanged)
    /\ (pc = "loop" /\ count > 0) =>
          (count < sample_frame_count /\ SomeCellChanged)

\* C9. Every run ends, at a generation boundary: the loop makes one step()
\* per iteration, goes on only while the last step() changed some cell and
\* fewer than sample_frame_count steps were made, and so ends right after the
\* first step() that changes no cell or else right after step number
\* sample_frame_count.
RunEndsAtBoundary == [] RunBoundary /\ <> RunEnded

\* A run that ended at the cap, its last generation still changing.
RunEndsAtBoundaryWitness ==
    RunEnded /\ count = sample_frame_count /\ SomeCellChanged

SampledGenerations ==
    { generations[k] : k \in 1 .. Len(generations) } 

DifferingCells ==
    { i \in Cells(size) :
        last_frames_cell_changes_anded_1[i] # last_frames_cell_changes_anded_2[i] }

\* C10. The run is reported iff unique_count = sample_frame_count and
\* diff_count > min_end_cell_diff, unique_count being the number of distinct
\* grids among the generations of the run (at most sample_frame_count, one
\* hash each) and diff_count the number of cells where the two window
\* accumulators differ; nothing is printed before the run ends.
ReportedIffInteresting ==
    /\ ~RunEnded => printed = << >>
    /\ pc \in {"loop", "next"} =>
          /\ Len(generations) <= sample_frame_count
          /\ Cardinality(unique_frame_hashes) = Cardinality(SampledGenerations)
    /\ RunEnded =>
          /\ printed # << >> <=>
                /\ Cardinality(SampledGenerations) = sample_frame_count
                /\ Cardinality(DifferingCells) > min_end_cell_diff
          /\ printed # << >> =>
                printed = << << sample_frame_count, Cardinality(DifferingCells), seed >> >>

\* A run that was reported.
ReportedIffInterestingWitness == RunEnded /\ printed # << >>

\* C21. A run that ends because its last generation changed no cell is
\* never reported: its unique_count is below sample_frame_count (the last
\* grid repeats the one before it), also when that generation is number
\* sample_frame_count.
QuiescentRunNotReported ==
    (RunEnded /\ NoCellChanged) =>
        /\ Cardinality(unique_frame_hashes) < sample_frame_count
        /\ Cardinality(SampledGenerations) < sample_frame_count
        /\ printed = << >>

\* A run whose generation number sample_frame_count is the first to change
\* no cell.
QuiescentRunNotReportedWitness ==
    /\ RunEnded
    /\ NoCellChanged
    /\ count = sample_frame_count
    /\ \E i \in Cells(size) : change_history[sample_frame_count - 1][i]

\* C22. After World::new and any sequence of randomize() and step() calls
\* every value of data and of prev_data is a symbol of 0 .. symbol_count-1
\* and an index of symbol_to_color; the symbol randomize() writes is one for
\* every alphabet up to MaxSymbolCount.
ValuesInRange ==
    /\ TypeOK
    /\ \A i \in Cells(size) :
          data[i] \in DOMAIN symbol_to_color /\ prev_data[i] \in DOMAIN symbol_to_color
    /\ \A sc \in 1 .. MaxSymbolCount : RandomSymbols(sc) \subseteq 0 .. sc - 1

\* randomize() and step() have both run, and both buffers hold the largest
\* symbol: data in a cell the last step() changed.
ValuesInRangeWitness ==
    /\ randomize_calls >= 1
    /\ steps >= 2
    /\ \E i \in Cells(size) :
          data[i] = symbol_count - 1 /\ cell_changed_flags[i]
    /\ \E i \in Cells(size) : prev_data[i] = symbol_count - 1

\* The per-cell OR of cell_changed over the generations gens, generations
\* numbered from 0 in step order.
OrOverGenerations(gens) ==
    [i \in Cells(size) |-> \E g \in gens : change_history[g + 1][i]]

\* C17. At the end of a run that reaches the sample cutoff the first
\* accumulator is the OR of cell_changed over generations
\* sample_frame_count-10 .. sample_frame_count-6 and the second over
\* generations sample_frame_count-5 .. sample_frame_count-1.
WindowGenerations ==
    (RunEnded /\ count = sample_frame_count) =>
        /\ last_frames_cell_changes_anded_1 =
              OrOverGenerations((sample_frame_count - 10) .. (sample_frame_count - 6))
        /\ last_frames_cell_changes_anded_2 =
              OrOverGenerations((sample_frame_count - 5) .. (sample_frame_count - 1))

=============================================================================
